---- MODULE Spec2Model ----
(***************************************************************************)
(* A model of ataurus' text preparation (preparing/preparator.py, class    *)
(* Preparator) and feature extraction (features/extract.py, class          *)
(* FeaturesExtractor).                                                     *)
(*                                                                         *)
(* A text is a sequence of characters over Chars.  "U" stands for one      *)
(* maximal match of the URLS pattern, "." for a character matched by the   *)
(* PUNCTUATIONS pattern, " " for a whitespace character, "A" for an        *)
(* uppercase letter and "a" and "b" for lowercase letters.                 *)
(***************************************************************************)
EXTENDS Integers, Sequences, FiniteSets

\* Bounds of the model.
MaxRows == 2
MaxTextLen == 3
MaxSamples == 2

VARIABLES
    _texts,     \* Preparator._texts: None or the array of text values
    _authors,   \* Preparator._authors: None or the array of author labels
    data,       \* the table of the last successful fit (history)
    ret,        \* the last call on the preparer and its outcome
    n_jobs,     \* FeaturesExtractor.n_jobs
    X,          \* the argument of the running transform
    lists,      \* (texts, tokens, sentences) as _retrieve_lists returned them
    pc,         \* the position of transform
    fam,        \* the family process is working on, 1..6
    todo,       \* the tasks Parallel has not dispatched yet
    running,    \* the tasks in the workers
    collected,  \* the results Parallel holds for the running process call
    blocks,     \* the family blocks computed so far
    result,     \* what transform returned
    error,      \* the error transform raised
    faulty,     \* the (function, argument) pairs on which a feature function raises
    raised,     \* a feature computation has raised in this transform (history)
    overtaken   \* a task completed while an earlier one was unfinished (history)

prepVars == <<_texts, _authors, data, ret>>
extVars == <<n_jobs, X, lists, pc, fam, todo, running, collected, blocks, result,
             error, faulty, raised, overtaken>>
vars == <<_texts, _authors, data, ret, n_jobs, X, lists, pc, fam, todo, running,
          collected, blocks, result, error, faulty, raised, overtaken>>

----------------------------------------------------------------------------
\* Values

Chars == {"a", "b", "A", " ", ".", "U"}

None == [some |-> FALSE, v |-> <<>>]

Some(v) == [some |-> TRUE, v |-> v]

\* A value of the text column: a string, a null (None/NaN), the integer 0 (a falsy
\* value that is no string) or the integer 7 (a truthy value that is no string).
StrCell(s) == [kind |-> "str", s |-> s]

NullCell == [kind |-> "null", s |-> <<>>]

ZeroCell == [kind |-> "zero", s |-> <<>>]

NumCell == [kind |-> "num", s |-> <<>>]

AbsentCell == [kind |-> "absent", s |-> <<>>]

\* Python's truth value of a text value.
Truthy(cell) == (cell.kind = "str" /\ cell.s # <<>>) \/ cell.kind = "num"

IsSpace(c) == c = " "

IsPunct(c) == c = "."

IsUrl(c) == c = "U"

\* str.lower()
StrLower(s) == [i \in 1..Len(s) |-> IF s[i] = "A" THEN "a" ELSE s[i]]

RECURSIVE SubSpaces(_)
\* re.sub(r'[\s]+', r' ', s): every run of whitespace becomes one space
SubSpaces(s) ==
    IF s = <<>> THEN <<>>
    ELSE IF IsSpace(Head(s)) /\ Len(s) > 1 /\ IsSpace(s[2]) THEN SubSpaces(Tail(s))
    ELSE <<IF IsSpace(Head(s)) THEN " " ELSE Head(s)>> \o SubSpaces(Tail(s))

RECURSIVE LStrip(_)
LStrip(s) == IF s # <<>> /\ IsSpace(Head(s)) THEN LStrip(Tail(s)) ELSE s

RECURSIVE RStrip(_)
RStrip(s) ==
    IF s # <<>> /\ IsSpace(s[Len(s)]) THEN RStrip(SubSeq(s, 1, Len(s) - 1)) ELSE s

\* str.strip()
Strip(s) == RStrip(LStrip(s))

\* URLS.sub('', s)
UrlsSub(s) == SelectSeq(s, LAMBDA c : ~IsUrl(c))

\* PUNCTUATIONS.sub(" ", s)
PunctSub(s) == [i \in 1..Len(s) |-> IF IsPunct(s[i]) THEN " " ELSE s[i]]

\* PUNCTUATIONS.search(token)
PunctSearch(t) == \E i \in 1..Len(t) : IsPunct(t[i])

RECURSIVE TokenizeFrom(_, _)
TokenizeFrom(s, cur) ==
    LET flush == IF cur = <<>> THEN <<>> ELSE <<cur>>
    IN  IF s = <<>> THEN flush
        ELSE IF IsSpace(Head(s)) THEN flush \o TokenizeFrom(Tail(s), <<>>)
        ELSE IF IsPunct(Head(s))
             THEN flush \o <<<<Head(s)>>>> \o TokenizeFrom(Tail(s), <<>>)
        ELSE TokenizeFrom(Tail(s), Append(cur, Head(s)))

\* razdel.tokenize on a string: words are runs of word characters, a punctuation
\* character is a token of its own, whitespace separates
Tokenize(s) == TokenizeFrom(s, <<>>)

RECURSIVE SentenizeFrom(_, _)
SentenizeFrom(s, cur) ==
    IF s = <<>> THEN <<Strip(cur)>>
    ELSE IF IsPunct(Head(s)) /\ Len(s) > 1 /\ IsSpace(s[2])
         THEN <<Strip(Append(cur, Head(s)))>> \o SentenizeFrom(Tail(s), <<>>)
    ELSE SentenizeFrom(Tail(s), Append(cur, Head(s)))

\* razdel.sentenize on a string: a sentence ends at a punctuation character that
\* whitespace follows; each sentence is stripped
Sentenize(s) == SentenizeFrom(s, <<>>)

----------------------------------------------------------------------------
\* Preparator

Raise(kind) == [outcome |-> kind, none |-> FALSE, s |-> <<>>]

\* _process_text on the text value it read
ProcessText(cell, lower, delete_whitespace, delete_urls) ==
    IF ~Truthy(cell) THEN [outcome |-> "ok", none |-> TRUE, s |-> <<>>]
    ELSE IF cell.kind # "str" THEN Raise("TypeError")
    ELSE LET t1 == IF lower THEN StrLower(cell.s) ELSE cell.s
             t2 == IF delete_whitespace THEN Strip(SubSpaces(t1)) ELSE t1
             t3 == IF delete_urls THEN UrlsSub(t2) ELSE t2
         IN  [outcome |-> "ok", none |-> FALSE, s |-> t3]

\* self._texts[index], then the processing; index counts from 0
_process_text(tx, index, lower, delete_whitespace, delete_urls) ==
    IF ~tx.some THEN Raise("TypeError")
    ELSE IF index < 0 \/ index >= Len(tx.v) THEN Raise("IndexError")
    ELSE ProcessText(tx.v[index + 1], lower, delete_whitespace, delete_urls)

\* The index argument of tokens and sentences: None, an int or something else.
IndexNone == [kind |-> "none", n |-> 0]

IndexInt(n) == [kind |-> "int", n |-> n]

IndexOther == [kind |-> "other", n |-> 0]

IndexArgs == {IndexNone, IndexOther} \cup {IndexInt(n) : n \in 0..MaxRows}

\* The indices the loop of tokens and sentences runs over.
IndexList(tx, index) ==
    IF index.kind = "none"
    THEN IF tx.some
         THEN [outcome |-> "ok", idxs |-> [k \in 1..Len(tx.v) |-> k - 1]]
         ELSE [outcome |-> "TypeError", idxs |-> <<>>]
    ELSE IF index.kind # "int" THEN [outcome |-> "TypeError", idxs |-> <<>>]
    ELSE [outcome |-> "ok", idxs |-> <<index.n>>]

Failed(kind) == [outcome |-> kind, value |-> <<>>, src |-> <<>>]

\* A sentences loop that had the whitespace collapsed, as tokens does.
SentencesProcessCollapsed(tx, i) == _process_text(tx, i, FALSE, TRUE, TRUE)

\* One round of the loop of sentences calls _process_text with these flags.
SentencesProcess(tx, i) == _process_text(tx, i, FALSE, FALSE, TRUE)

\* One round of the loop of tokens calls _process_text with these flags.
TokensProcess(tx, i, lower) == _process_text(tx, i, lower, TRUE, TRUE)

\* The tokens of one processed text; tokenize(None) raises TypeError.
TokensOf(p, delete_punctuations) ==
    LET toks == Tokenize(p.s)
    IN  IF delete_punctuations
        THEN SelectSeq(toks, LAMBDA t : ~PunctSearch(t))
        ELSE toks

RECURSIVE TokensLoop(_, _, _, _, _)
TokensLoop(tx, idxs, lower, delete_punctuations, acc) ==
    IF idxs = <<>> THEN [outcome |-> "ok", value |-> acc.value, src |-> acc.src]
    ELSE LET i == Head(idxs)
             p == TokensProcess(tx, i, lower)
         IN  IF p.outcome # "ok" THEN Failed(p.outcome)
             ELSE IF p.none THEN Failed("TypeError")
             ELSE TokensLoop(tx, Tail(idxs), lower, delete_punctuations,
                             [value |-> Append(acc.value, TokensOf(p, delete_punctuations)),
                              src |-> Append(acc.src, i)])

\* Preparator.tokens: the outcome, the list returned and, as history, the sample
\* each entry of the list was made from
Tokens(tx, index, lower, delete_punctuations) ==
    LET l == IndexList(tx, index)
    IN  IF l.outcome # "ok" THEN Failed(l.outcome)
        ELSE TokensLoop(tx, l.idxs, lower, delete_punctuations,
                        [value |-> <<>>, src |-> <<>>])

\* The sentences of one processed text.
SentencesOf(p, lower, delete_punctuations) ==
    LET raw == Sentenize(p.s)
        low == IF lower THEN [k \in 1..Len(raw) |-> StrLower(raw[k])] ELSE raw
    IN  IF delete_punctuations
        THEN [k \in 1..Len(low) |-> Strip(SubSpaces(PunctSub(low[k])))]
        ELSE low

RECURSIVE SentencesLoop(_, _, _, _, _)
SentencesLoop(tx, idxs, lower, delete_punctuations, acc) ==
    IF idxs = <<>> THEN [outcome |-> "ok", value |-> acc.value, src |-> acc.src]
    ELSE LET i == Head(idxs)
             p == SentencesProcess(tx, i)
         IN  IF p.outcome # "ok" THEN Failed(p.outcome)
             ELSE IF p.none \/ p.s = <<>>
                  THEN SentencesLoop(tx, Tail(idxs), lower, delete_punctuations, acc)
             ELSE SentencesLoop(tx, Tail(idxs), lower, delete_punctuations,
                                [value |-> Append(acc.value,
                                                  SentencesOf(p, lower, delete_punctuations)),
                                 src |-> Append(acc.src, i)])

\* Preparator.sentences
Sentences(tx, index, lower, delete_punctuations) ==
    LET l == IndexList(tx, index)
    IN  IF l.outcome # "ok" THEN Failed(l.outcome)
        ELSE SentencesLoop(tx, l.idxs, lower, delete_punctuations,
                           [value |-> <<>>, src |-> <<>>])

\* Tables.  A row holds a cell for each column of the table; the cell of a column
\* the table does not have is AbsentCell or "-".
NotADataFrame == [isDF |-> FALSE, cols |-> {}, rows |-> <<>>]

NoTable == [isDF |-> FALSE, cols |-> {"-"}, rows |-> <<>>]

AuthorCells == {"NULL", "X", "Y"}

RowsOver(cols, textCells) ==
    [text : IF "text" \in cols THEN textCells ELSE {AbsentCell},
     author : IF "author" \in cols THEN AuthorCells ELSE {"-"}]

TablesOver(colSets, textCells) ==
    {[isDF |-> TRUE, cols |-> c, rows |-> r] :
        <<c, r>> \in UNION {{c2} \X UNION {[1..n -> RowsOver(c2, textCells)] : n \in 0..MaxRows} :
                            c2 \in colSets}}

\* A row without a null in any of the table's columns.
NoNull(cols, row) ==
    /\ "text" \in cols => row.text.kind # "null"
    /\ "author" \in cols => row.author # "NULL"

\* DataFrame.dropna(): the rows without a null, in their order
DropNa(d) == SelectSeq(d.rows, LAMBDA row : NoNull(d.cols, row))

\* A fit without the isinstance check.
FitOutcomeColumnOnly(d) ==
    IF ~("text" \in d.cols) THEN "KeyError"
    ELSE "ok"

\* The error fit raises on its argument, or "ok".
FitOutcome(d) ==
    IF ~d.isDF THEN "TypeError"
    ELSE IF ~("text" \in d.cols) THEN "KeyError"
    ELSE "ok"

NoRet ==
    [op |-> "none", outcome |-> "ok", arg |-> NoTable, index |-> IndexNone,
     lower |-> FALSE, flag |-> FALSE, flag2 |-> FALSE, value |-> <<>>, src |-> <<>>,
     text |-> None]

\* Preparator.fit(data)
fit(d) ==
    /\ ret.op = "none"
    /\ ret' = [NoRet EXCEPT !.op = "fit", !.outcome = FitOutcome(d), !.arg = d]
    /\ IF FitOutcome(d) # "ok"
       THEN UNCHANGED <<_texts, _authors, data>>
       ELSE LET kept == DropNa(d)
            IN  /\ _texts' = Some([k \in 1..Len(kept) |-> kept[k].text])
                /\ _authors' = IF "author" \in d.cols
                               THEN Some([k \in 1..Len(kept) |-> kept[k].author])
                               ELSE _authors
                /\ data' = d
    /\ UNCHANGED extVars

\* Preparator.tokens(index, lower, delete_punctuations)
tokens(index, lower, delete_punctuations) ==
    /\ ret.op = "none"
    /\ LET r == Tokens(_texts, index, lower, delete_punctuations)
       IN  ret' = [NoRet EXCEPT !.op = "tokens", !.outcome = r.outcome, !.index = index,
                                !.lower = lower, !.flag = delete_punctuations,
                                !.value = r.value, !.src = r.src]
    /\ UNCHANGED <<_texts, _authors, data>>
    /\ UNCHANGED extVars

\* Preparator.sentences(index, lower, delete_punctuations)
sentences(index, lower, delete_punctuations) ==
    /\ ret.op = "none"
    /\ LET r == Sentences(_texts, index, lower, delete_punctuations)
       IN  ret' = [NoRet EXCEPT !.op = "sentences", !.outcome = r.outcome,
                                !.index = index, !.lower = lower,
                                !.flag = delete_punctuations,
                                !.value = r.value, !.src = r.src]
    /\ UNCHANGED <<_texts, _authors, data>>
    /\ UNCHANGED extVars

\* Preparator._process_text(0, lower, delete_whitespace, delete_urls) called alone
call_process_text(lower, delete_whitespace, delete_urls) ==
    /\ ret.op = "none"
    /\ LET p == _process_text(_texts, 0, lower, delete_whitespace, delete_urls)
       IN  ret' = [NoRet EXCEPT !.op = "_process_text", !.outcome = p.outcome,
                                !.lower = lower, !.flag = delete_whitespace,
                                !.flag2 = delete_urls,
                                !.text = IF p.outcome = "ok" /\ ~p.none
                                         THEN Some(p.s) ELSE None]
    /\ UNCHANGED <<_texts, _authors, data>>
    /\ UNCHANGED extVars

\* The caller takes the value or the error of the call it made.
Return ==
    /\ ret.op # "none"
    /\ ret' = NoRet
    /\ UNCHANGED <<_texts, _authors, data>>
    /\ UNCHANGED extVars

----------------------------------------------------------------------------
\* The preparer's specifications

NoLists ==
    [outcome |-> "none", texts |-> <<>>, tokens |-> <<>>, sentences |-> <<>>,
     srcTexts |-> <<>>, srcTokens |-> <<>>, srcSentences |-> <<>>]

\* Preparator.__init__
PrepInit ==
    /\ _texts = None
    /\ _authors = None
    /\ data = NoTable
    /\ ret = NoRet

\* FeaturesExtractor.__init__ and the feature functions there are
ExtInit(jobs, bad) ==
    /\ n_jobs = jobs
    /\ faulty = bad
    /\ X = <<>>
    /\ lists = NoLists
    /\ pc = "idle"
    /\ fam = 0
    /\ todo = <<>>
    /\ running = {}
    /\ collected = <<>>
    /\ blocks = <<>>
    /\ result = None
    /\ error = "none"
    /\ raised = FALSE
    /\ overtaken = FALSE

\* The text values of the tables given to fit when the loading is looked at.
FitTextCells == {NullCell, StrCell(<<>>), StrCell(<<"A", ".">>)}

FitInputs ==
    {NotADataFrame} \cup TablesOver(SUBSET {"text", "author"}, FitTextCells)

\* The text values of the tables given to fit when tokens and sentences are looked at.
PrepTextCells ==
    {NullCell, ZeroCell, NumCell, StrCell(<<>>), StrCell(<<" ">>), StrCell(<<"U">>),
     StrCell(<<" ", "U">>), StrCell(<<"A", ".", " ", "b">>)}

PrepInputs == TablesOver({{"text"}}, PrepTextCells)

Init == PrepInit /\ ExtInit(1, {})

\* fit on tables with and without the text and author columns, then tokens
NextFit ==
    \/ \E d \in FitInputs : fit(d)
    \/ \E lower \in BOOLEAN, dp \in BOOLEAN : tokens(IndexNone, lower, dp)
    \/ Return

SpecFit == Init /\ [][NextFit]_vars

\* fit on tables of one text column, then tokens and sentences
NextPrep ==
    \/ \E d \in PrepInputs : fit(d)
    \/ \E index \in IndexArgs, lower \in BOOLEAN, dp \in BOOLEAN :
          tokens(index, lower, dp)
    \/ \E index \in IndexArgs, lower \in BOOLEAN, dp \in BOOLEAN :
          sentences(index, lower, dp)
    \/ Return

SpecPrep == Init /\ [][NextPrep]_vars

\* Every string of at most MaxTextLen characters.
Strings == UNION {[1..n -> Chars] : n \in 0..MaxTextLen}

TextTable(s) ==
    [isDF |-> TRUE, cols |-> {"text"},
     rows |-> <<[text |-> StrCell(s), author |-> "-"]>>]

\* A preparer loaded with one text.
InitText ==
    /\ \E s \in Strings :
          /\ _texts = Some(<<StrCell(s)>>)
          /\ data = TextTable(s)
    /\ _authors = None
    /\ ret = NoRet
    /\ ExtInit(1, {})

NextText ==
    \/ \E lower \in BOOLEAN, dw \in BOOLEAN, du \in BOOLEAN :
          call_process_text(lower, dw, du)
    \/ Return

SpecText == InitText /\ [][NextText]_vars

----------------------------------------------------------------------------
\* FeaturesExtractor

\* An entry of the texts, tokens or sentences list: None or a list of strings (a
\* text is held as the list of its one string).
TextObj(cell) == Some(<<cell.s>>)

\* Python's truth value of an entry of the tokens or sentences column.
ListTruthy(entry) == entry.some /\ entry.v # <<>>

\* any(column)
AnyTruthy(column) == \E k \in 1..Len(column) : ListTruthy(column[k])

\* Preprocessor(texts): the preparer holding the texts column
PreprocessorOf(texts) == Some(texts)

\* Preprocessor.texts(): the processed text of every sample
PreTexts(tx) ==
    LET ps == [k \in 1..Len(tx.v) |-> _process_text(tx, k - 1, TRUE, TRUE, TRUE)]
        bad == {k \in 1..Len(ps) : ps[k].outcome # "ok"}
    IN  IF bad # {}
        THEN Failed(ps[CHOOSE k \in bad : \A j \in bad : k <= j].outcome)
        ELSE [outcome |-> "ok",
              value |-> [k \in 1..Len(ps) |-> IF ps[k].none THEN None ELSE Some(<<ps[k].s>>)],
              src |-> [k \in 1..Len(ps) |-> k - 1]]

\* Preprocessor.tokens()
PreTokens(tx) ==
    LET r == Tokens(tx, IndexNone, TRUE, TRUE)
    IN  [r EXCEPT !.value = [k \in 1..Len(r.value) |-> Some(r.value[k])]]

\* Preprocessor.sentences()
PreSentences(tx) ==
    LET r == Sentences(tx, IndexNone, TRUE, TRUE)
    IN  [r EXCEPT !.value = [k \in 1..Len(r.value) |-> Some(r.value[k])]]

RetrieveFailed(kind) == [NoLists EXCEPT !.outcome = kind]

\* A _retrieve_lists that derived everything as soon as one column is all falsy.
RetrieveBranchOr(toks, sents) ==
    IF ~AnyTruthy(toks) \/ ~AnyTruthy(sents) THEN 1
    ELSE 4

\* The branch _retrieve_lists takes: 1 all three derived, 2 the tokens derived,
\* 3 the sentences derived, 4 nothing derived.
RetrieveBranch(toks, sents) ==
    IF ~AnyTruthy(toks) /\ ~AnyTruthy(sents) THEN 1
    ELSE IF ~AnyTruthy(toks) THEN 2
    ELSE IF ~AnyTruthy(sents) THEN 3
    ELSE 4

\* FeaturesExtractor._retrieve_lists(X); the src fields are history: the sample
\* each entry was made from
RetrieveLists(x) ==
    LET texts == [k \in 1..Len(x) |-> x[k].text]
        toks == [k \in 1..Len(x) |-> x[k].tokens]
        sents == [k \in 1..Len(x) |-> x[k].sentences]
        same == [k \in 1..Len(x) |-> k - 1]
        pre == PreprocessorOf(texts)
        given == [outcome |-> "ok",
                  texts |-> [k \in 1..Len(x) |-> TextObj(texts[k])],
                  tokens |-> toks, sentences |-> sents,
                  srcTexts |-> same, srcTokens |-> same, srcSentences |-> same]
        branch == RetrieveBranch(toks, sents)
        t == PreTexts(pre)
        k == PreTokens(pre)
        s == PreSentences(pre)
    IN  IF branch = 1
        THEN IF t.outcome # "ok" THEN RetrieveFailed(t.outcome)
             ELSE IF k.outcome # "ok" THEN RetrieveFailed(k.outcome)
             ELSE IF s.outcome # "ok" THEN RetrieveFailed(s.outcome)
             ELSE [outcome |-> "ok", texts |-> t.value, tokens |-> k.value,
                   sentences |-> s.value, srcTexts |-> t.src, srcTokens |-> k.src,
                   srcSentences |-> s.src]
        ELSE IF branch = 2
        THEN IF k.outcome # "ok" THEN RetrieveFailed(k.outcome)
             ELSE [given EXCEPT !.tokens = k.value, !.srcTokens = k.src]
        ELSE IF branch = 3
        THEN IF s.outcome # "ok" THEN RetrieveFailed(s.outcome)
             ELSE [given EXCEPT !.sentences = s.value, !.srcSentences = s.src]
        ELSE given

\* The six families in the order transform computes them: the feature function
\* and the list it is applied to.
NFamilies == 6

FamFunction(f) ==
    CASE f = 1 -> "avg_length"
      [] f = 2 -> "avg_length"
      [] f = 3 -> "pos_distribution"
      [] f = 4 -> "lexicon"
      [] f = 5 -> "foreign_words_ratio"
      [] f = 6 -> "punctuations_distribution"

FamObjects(l, f) ==
    CASE f \in {1, 3, 4, 5} -> l.tokens
      [] f = 2 -> l.sentences
      [] f = 6 -> l.texts

Functions ==
    {"avg_length", "pos_distribution", "lexicon", "foreign_words_ratio",
     "punctuations_distribution"}

\* The vector a feature function returns: a deterministic function of the feature
\* function and its argument.
Feature(fn, obj) == [fn |-> fn, arg |-> obj]

\* A feature function raises on the arguments that faulty holds for it.
Raises(fn, obj) == <<fn, obj>> \in faulty

\* The tasks of one process call, in the order of the list.
TasksOf(objects) == [k \in 1..Len(objects) |-> k]

Pending(objects) == [k \in 1..Len(objects) |-> None]

\* A Parallel that kept the results in the order the workers finished.
PlaceByArrival(out, i, v) ==
    LET free == {k \in 1..Len(out) : ~out[k].some}
    IN  [out EXCEPT ![CHOOSE k \in free : \A j \in free : k <= j] = Some(v)]

\* Parallel keeps the result of task i at place i of its output list.
Place(out, i, v) == [out EXCEPT ![i] = Some(v)]

\* np.vstack of the list Parallel returned
Stack(out) ==
    LET got == SelectSeq(out, LAMBDA r : r.some)
    IN  [k \in 1..Len(got) |-> got[k].v]

Max(S) == CHOOSE m \in S : \A n \in S : n <= m

\* pd.concat(blocks, axis=1): the rows are the union of the blocks' row indices,
\* with NaN (None) where a block has no such row
ConcatBlocks(bs) ==
    LET n == Max({Len(bs[f]) : f \in 1..Len(bs)})
    IN  [i \in 1..n |-> [f \in 1..Len(bs) |->
            IF i <= Len(bs[f]) THEN Some(bs[f][i]) ELSE None]]

\* transform(X) up to the first process call
transform(x) ==
    /\ pc = "idle"
    /\ X' = x
    /\ LET l == RetrieveLists(x)
       IN  /\ lists' = l
           /\ IF l.outcome # "ok"
              THEN /\ pc' = "failed"
                   /\ error' = l.outcome
                   /\ UNCHANGED <<fam, todo, collected>>
              ELSE /\ pc' = "process"
                   /\ fam' = 1
                   /\ todo' = TasksOf(FamObjects(l, 1))
                   /\ collected' = Pending(FamObjects(l, 1))
                   /\ UNCHANGED error
    /\ UNCHANGED <<n_jobs, faulty, running, blocks, result, raised, overtaken>>
    /\ UNCHANGED prepVars

\* Parallel hands the next task of the list to a free worker.
Dispatch ==
    /\ pc = "process"
    /\ todo # <<>>
    /\ Cardinality(running) < n_jobs
    /\ running' = running \cup {Head(todo)}
    /\ todo' = Tail(todo)
    /\ UNCHANGED <<n_jobs, X, lists, pc, fam, collected, blocks, result, error,
                   faulty, raised, overtaken>>
    /\ UNCHANGED prepVars

\* A process that dropped the row of a task that raised and went on.
TaskRaisesSkipped(i) ==
    /\ raised' = TRUE
    /\ running' = running \ {i}
    /\ UNCHANGED <<n_jobs, X, lists, pc, fam, todo, collected, blocks, result, error,
                   faulty, overtaken>>

\* The feature function of task i raised: the error leaves Parallel, process and
\* transform.
TaskRaises(i) ==
    /\ pc' = "failed"
    /\ error' = "FeatureError"
    /\ raised' = TRUE
    /\ running' = {}
    /\ todo' = <<>>
    /\ collected' = <<>>
    /\ blocks' = <<>>
    /\ UNCHANGED <<n_jobs, X, lists, fam, result, faulty, overtaken>>

\* The feature function of task i returned.
TaskReturns(i) ==
    /\ collected' = Place(collected, i,
                          Feature(FamFunction(fam), FamObjects(lists, fam)[i]))
    /\ running' = running \ {i}
    /\ overtaken' = (overtaken \/ \E j \in running : j < i)
    /\ UNCHANGED <<n_jobs, X, lists, pc, fam, todo, blocks, result, error, faulty,
                   raised>>

\* A worker finishes its task; the workers finish in any order.
Complete(i) ==
    /\ pc = "process"
    /\ i \in running
    /\ IF Raises(FamFunction(fam), FamObjects(lists, fam)[i])
       THEN TaskRaises(i)
       ELSE TaskReturns(i)
    /\ UNCHANGED prepVars

\* process: Parallel returned its list; np.vstack, the DataFrame, the next family
Collect ==
    /\ pc = "process"
    /\ todo = <<>>
    /\ running = {}
    /\ IF Stack(collected) = <<>>
       THEN /\ pc' = "failed"
            /\ error' = "ValueError"
            /\ collected' = <<>>
            /\ blocks' = <<>>
            /\ UNCHANGED <<fam, todo>>
       ELSE /\ blocks' = Append(blocks, Stack(collected))
            /\ IF fam = NFamilies
               THEN /\ pc' = "concat"
                    /\ collected' = <<>>
                    /\ UNCHANGED <<fam, todo>>
               ELSE /\ fam' = fam + 1
                    /\ todo' = TasksOf(FamObjects(lists, fam + 1))
                    /\ collected' = Pending(FamObjects(lists, fam + 1))
                    /\ UNCHANGED pc
            /\ UNCHANGED error
    /\ UNCHANGED <<n_jobs, X, lists, running, result, faulty, raised, overtaken>>
    /\ UNCHANGED prepVars

\* transform: pd.concat of the six blocks, and the return
Concat ==
    /\ pc = "concat"
    /\ result' = Some(ConcatBlocks(blocks))
    /\ pc' = "done"
    /\ UNCHANGED <<n_jobs, X, lists, fam, todo, running, collected, blocks, error,
                   faulty, raised, overtaken>>
    /\ UNCHANGED prepVars

\* The locals of a call are gone when it has returned.
ExtReset ==
    /\ X' = <<>>
    /\ lists' = NoLists
    /\ pc' = "idle"
    /\ fam' = 0
    /\ todo' = <<>>
    /\ running' = {}
    /\ collected' = <<>>
    /\ blocks' = <<>>
    /\ result' = None
    /\ error' = "none"
    /\ raised' = FALSE
    /\ overtaken' = FALSE
    /\ UNCHANGED <<n_jobs, faulty>>

\* The caller takes the matrix or the error; the extractor keeps nothing.
TransformReturn ==
    /\ pc \in {"done", "failed"}
    /\ ExtReset
    /\ UNCHANGED prepVars

\* FeaturesExtractor._retrieve_lists(X) called alone
_retrieve_lists(x) ==
    /\ pc = "idle"
    /\ X' = x
    /\ lists' = RetrieveLists(x)
    /\ pc' = "retrieved"
    /\ UNCHANGED <<n_jobs, fam, todo, running, collected, blocks, result, error,
                   faulty, raised, overtaken>>
    /\ UNCHANGED prepVars

RetrieveReturn ==
    /\ pc = "retrieved"
    /\ ExtReset
    /\ UNCHANGED prepVars

----------------------------------------------------------------------------
\* The extractor's specifications

InputsOver(textCells, tokenCells, sentenceCells) ==
    UNION {[1..n -> [text : textCells, tokens : tokenCells, sentences : sentenceCells]] :
           n \in 0..MaxSamples}

\* The same kind of entry in every row of the column: a column given or not given.
Uniform(column) == \A j \in 1..Len(column), k \in 1..Len(column) : column[j] = column[k]

\* Inputs of transform whose tokens column, and whose sentences column, is either
\* given in every row or None in every row.
ExtInputs ==
    {x \in InputsOver({StrCell(<<"U">>), StrCell(<<"a", " ", "b">>)},
                      {None, Some(<<<<"a">>>>)},
                      {None, Some(<<<<"a", " ", "b">>>>)}) :
        /\ Uniform([k \in 1..Len(x) |-> x[k].tokens])
        /\ Uniform([k \in 1..Len(x) |-> x[k].sentences])}

\* The worker counts the extractor is configured with.
JobCounts == {1, 2, 4}

\* The arguments a feature function may raise on.
FaultyObjects == {Some(<<>>), Some(<<<<"a", " ", "b">>>>)}

FaultySets == {{}} \cup {{<<fn, obj>>} : fn \in Functions, obj \in FaultyObjects}

InitExtract ==
    /\ PrepInit
    /\ \E jobs \in JobCounts, bad \in FaultySets : ExtInit(jobs, bad)

NextExtract ==
    \/ \E x \in ExtInputs : transform(x)
    \/ Dispatch
    \/ \E i \in running : Complete(i)
    \/ Collect
    \/ Concat
    \/ TransformReturn

SpecExtract == InitExtract /\ [][NextExtract]_vars

RetInputs ==
    InputsOver({StrCell(<<>>), StrCell(<<"U">>), StrCell(<<"A", ".", " ", "b">>)},
               {None, Some(<<>>), Some(<<<<"a">>>>)},
               {None, Some(<<>>), Some(<<<<"a", " ", "b">>>>)})

NextRetrieve ==
    \/ \E x \in RetInputs : _retrieve_lists(x)
    \/ RetrieveReturn

SpecRetrieve == Init /\ [][NextRetrieve]_vars

----------------------------------------------------------------------------
\* Properties

\* The indices 0..n-1 in their order.
Indices(n) == [k \in 1..n |-> k - 1]

\* The expected block of family f: row i is the feature function applied to entry
\* i of the list handed to process.
ExpectedBlock(f) ==
    [i \in 1..Len(FamObjects(lists, f)) |->
        Feature(FamFunction(f), FamObjects(lists, f)[i])]

AllFalsy(column) == \A k \in 1..Len(column) : ~ListTruthy(column[k])

\* C2: _retrieve_lists derives all three lists when the tokens and the sentences
\* column are both all falsy, else only the tokens when the tokens column is all
\* falsy, else only the sentences when the sentences column is all falsy, else
\* nothing; a tokens or sentences column with a truthy entry is never replaced.
C2_RetrievePolicy ==
    (pc = "retrieved" /\ lists.outcome = "ok") =>
        LET toks == [k \in 1..Len(X) |-> X[k].tokens]
            sents == [k \in 1..Len(X) |-> X[k].sentences]
            texts == [k \in 1..Len(X) |-> TextObj(X[k].text)]
            pre == PreprocessorOf([k \in 1..Len(X) |-> X[k].text])
        IN  /\ (AllFalsy(toks) /\ AllFalsy(sents)) =>
                  /\ lists.texts = PreTexts(pre).value
                  /\ lists.tokens = PreTokens(pre).value
                  /\ lists.sentences = PreSentences(pre).value
            /\ (AllFalsy(toks) /\ ~AllFalsy(sents)) =>
                  /\ lists.texts = texts
                  /\ lists.tokens = PreTokens(pre).value
                  /\ lists.sentences = sents
            /\ (~AllFalsy(toks) /\ AllFalsy(sents)) =>
                  /\ lists.texts = texts
                  /\ lists.tokens = toks
                  /\ lists.sentences = PreSentences(pre).value
            /\ (~AllFalsy(toks) /\ ~AllFalsy(sents)) =>
                  /\ lists.texts = texts
                  /\ lists.tokens = toks
                  /\ lists.sentences = sents
            /\ ~AllFalsy(toks) => lists.tokens = toks
            /\ ~AllFalsy(sents) => lists.sentences = sents

\* C2 witness: the tokens column is all falsy and the sentences column holds a
\* truthy and a falsy entry; the tokens were derived and differ from the column.
C2_Witness ==
    /\ pc = "retrieved"
    /\ lists.outcome = "ok"
    /\ Len(X) = 2
    /\ \A k \in 1..2 : ~ListTruthy(X[k].tokens)
    /\ ListTruthy(X[1].sentences)
    /\ ~ListTruthy(X[2].sentences)
    /\ lists.tokens # [k \in 1..2 |-> X[k].tokens]
    /\ lists.sentences = [k \in 1..2 |-> X[k].sentences]

\* The text values of the loaded table are strings or nulls.
ValidTexts(d) ==
    /\ d.isDF
    /\ "text" \in d.cols
    /\ \A k \in 1..Len(d.rows) : d.rows[k].text.kind \in {"str", "null"}

\* The rows of the table with a text that is not null.
TextRows(d) == SelectSeq(d.rows, LAMBDA row : row.text.kind # "null")

\* C3: after fit on a table with N rows whose text is not null, tokens(index=None)
\* returns N token lists in row order, none of them holding a punctuation token
\* when punctuation removal is requested.
C3_TokensPerTextRow ==
    (ret.op = "tokens" /\ ret.index = IndexNone /\ ValidTexts(data)) =>
        /\ ret.outcome = "ok"
        /\ Len(ret.value) = Len(TextRows(data))
        /\ ret.flag =>
              \A k \in 1..Len(ret.value) : \A j \in 1..Len(ret.value[k]) :
                  ~PunctSearch(ret.value[k][j])

\* C4: the three lists transform feeds to the feature functions have one entry for
\* each of the N samples, entry i made from sample i, and the matrix has N rows.
C4_ListsAligned ==
    pc = "done" =>
        /\ Len(result.v) = Len(X)
        /\ lists.srcTexts = Indices(Len(X))
        /\ lists.srcTokens = Indices(Len(X))
        /\ lists.srcSentences = Indices(Len(X))

\* C5: when the feature computation of a sample raises, transform fails with that
\* error and returns nothing; a matrix is returned only when no computation of
\* any family raises.
C5_FailFast ==
    /\ raised => (pc = "failed" /\ error = "FeatureError" /\ ~result.some)
    /\ result.some =>
          \A f \in 1..NFamilies : \A i \in 1..Len(FamObjects(lists, f)) :
              ~Raises(FamFunction(f), FamObjects(lists, f)[i])

\* C5 witness: a computation raised on several workers after the blocks of
\* earlier families had been computed.
C5_Witness ==
    /\ raised
    /\ pc = "failed"
    /\ fam > 1
    /\ n_jobs > 1
    /\ Len(X) = 2

\* The samples, in order, that the predicate holds of.
Selected(P(_)) ==
    SelectSeq(Indices(Len(_texts.v)), LAMBDA i : P(_texts.v[i + 1]))

\* The text whitespace-collapsed and URL-stripped is not empty.
NormalizedNonEmpty(cell) ==
    cell.kind = "str" /\ UrlsSub(Strip(SubSpaces(cell.s))) # <<>>

\* The value is truthy and the text with its URLs removed, its whitespace as it
\* is, is not empty.
UrlStrippedNonEmpty(cell) == Truthy(cell) /\ UrlsSub(cell.s) # <<>>

SentencesOfAll ==
    /\ ret.op = "sentences"
    /\ ret.index = IndexNone
    /\ ret.outcome = "ok"
    /\ _texts.some

\* C6 as stated: sentences(index=None) returns, in sample order, one entry for
\* each sample whose whitespace-collapsed, URL-stripped text is not empty and no
\* entry for the others.
C6_Original ==
    SentencesOfAll =>
        /\ ret.src = Selected(NormalizedNonEmpty)
        /\ Len(ret.value) = Len(ret.src)

\* C6 amended: sentences(index=None) returns, in sample order, one entry for each
\* sample whose raw value is truthy and whose URL-stripped text, whitespace not
\* collapsed, is not empty, and no entry for the others.
C6_Amended ==
    SentencesOfAll =>
        /\ ret.src = Selected(UrlStrippedNonEmpty)
        /\ Len(ret.value) = Len(ret.src)

\* C6 witness: of a whitespace-only text and a URL-only text, the first got an
\* entry and the second none.
C6_Witness ==
    /\ SentencesOfAll
    /\ _texts.v = <<StrCell(<<" ">>), StrCell(<<"U">>)>>
    /\ ret.src = <<0>>

\* C7 as stated: fit fails with SchemaError when its input is no table or a table
\* without a text column.
C7_Original ==
    (ret.op = "fit" /\ (~ret.arg.isDF \/ ~("text" \in ret.arg.cols))) =>
        ret.outcome = "SchemaError"

\* C7 amended: fit fails with TypeError when its input is no table, with KeyError
\* when it is a table without a text column, and does not fail otherwise.
C7_Amended ==
    ret.op = "fit" =>
        /\ ~ret.arg.isDF => ret.outcome = "TypeError"
        /\ (ret.arg.isDF /\ ~("text" \in ret.arg.cols)) => ret.outcome = "KeyError"
        /\ (ret.arg.isDF /\ "text" \in ret.arg.cols) => ret.outcome = "ok"

\* C7 witness: fit has failed on a table that has an author column and no text
\* column.
C7_Witness ==
    /\ ret.op = "fit"
    /\ ret.arg.isDF
    /\ ret.arg.cols = {"author"}
    /\ ret.outcome = "KeyError"

\* The call selects a sample whose raw value is no string.
SelectsNonString ==
    /\ _texts.some
    /\ \/ /\ ret.index.kind = "none"
          /\ \E k \in 1..Len(_texts.v) : _texts.v[k].kind # "str"
       \/ /\ ret.index.kind = "int"
          /\ ret.index.n < Len(_texts.v)
          /\ _texts.v[ret.index.n + 1].kind # "str"

\* C8: a tokens or sentences call that selects a sample whose raw value is no
\* string fails with TypeError.
C8_NonStringRaises ==
    (ret.op \in {"tokens", "sentences"} /\ SelectsNonString) =>
        ret.outcome = "TypeError"

\* No two whitespace characters in a row, none at either end.
Collapsed(s) ==
    /\ \A k \in 1..Len(s) - 1 : ~(IsSpace(s[k]) /\ IsSpace(s[k + 1]))
    /\ s # <<>> => (~IsSpace(s[1]) /\ ~IsSpace(s[Len(s)]))

\* C9: the text _process_text makes of a non-empty string with lower,
\* delete_whitespace and delete_urls is lowercase, without a URL and
\* whitespace-collapsed.
C9_Normalized ==
    (/\ ret.op = "_process_text"
     /\ ret.lower /\ ret.flag /\ ret.flag2
     /\ _texts.v[1].kind = "str"
     /\ _texts.v[1].s # <<>>) =>
        /\ ret.outcome = "ok"
        /\ ret.text.some
        /\ \A k \in 1..Len(ret.text.v) : ret.text.v[k] # "A" /\ ~IsUrl(ret.text.v[k])
        /\ Collapsed(ret.text.v)

\* C10: after a successful fit the preparer shows the last table only: authors is
\* None when that table had no author column, else the labels of the rows kept,
\* aligned with texts.
C10_LastLoadOnly ==
    (ret.op = "fit" /\ ret.outcome = "ok") =>
        LET kept == DropNa(ret.arg)
        IN  /\ _texts = Some([k \in 1..Len(kept) |-> kept[k].text])
            /\ IF "author" \in ret.arg.cols
               THEN _authors = Some([k \in 1..Len(kept) |-> kept[k].author])
               ELSE _authors = None

====
